---- MODULE Spec2Model ----
(***************************************************************************)
(* Model of the rust-etcd client: client construction, the per-endpoint    *)
(* request operations of the key-value and auth APIs, and the FirstOk      *)
(* failover future that drives them over the client's endpoints.           *)
(***************************************************************************)
EXTENDS Integers, Sequences, FiniteSets, TLC

\* ------------------------------------------------------------------ bounds
\* Longest endpoint list handed to Client::with_options.
MaxEndpoints == 3

\* ------------------------------------------------------------ value domains
\* Endpoint strings a caller may supply.  "http://a" and "http://b" are
\* absolute URIs, "/rel" is a path-only URI (a valid Uri that is no base for
\* a Url), "not a uri" is rejected by the Uri parser.
EndpointStrings == {"http://a", "http://b", "/rel", "not a uri"}

\* Keys a caller may pass.  "/a b" holds a character that is illegal in a Uri.
Keys == {"/foo", "/a b"}

\* HTTP status codes the transport may deliver.
Statuses == {200, 201, 404, 409}

\* The status codes delivered to the members calls that change the cluster,
\* whose success is 201 Created or 204 No Content.
MemberStatuses == Statuses \cup {204}

\* Shapes of a response body: JSON of the operation's payload type, JSON of
\* the ApiError payload, or bytes that decode as neither.
Bodies == {"payload", "apierror", "garbage"}

\* Option<T> is a sequence of length at most one.
None == <<>>

Some(x) == <<x>>

\* ------------------------------------------------------------------ errors
\* Error enum; status is used by UnexpectedStatus only.
MkError(kind, status) == [kind |-> kind, status |-> status]

ErrApi == MkError("Api", 0)

ErrHttp == MkError("Http", 0)

ErrInvalidConditions == MkError("InvalidConditions", 0)

ErrInvalidUri == MkError("InvalidUri", 0)

ErrInvalidUrl == MkError("InvalidUrl", 0)

ErrNoEndpoints == MkError("NoEndpoints", 0)

ErrSerialization == MkError("Serialization", 0)

ErrTls == MkError("Tls", 0)

ErrUnexpectedStatus(status) == MkError("UnexpectedStatus", status)

NoError == MkError("", 0)

\* ------------------------------------------------------------- URI parsing
\* hyper's Uri parser on the endpoint strings of the model.
ParseUri(s) ==
    CASE s = "http://a" -> [ok |-> TRUE, scheme |-> "http", authority |-> "a", path |-> "/"]
      [] s = "http://b" -> [ok |-> TRUE, scheme |-> "http", authority |-> "b", path |-> "/"]
      [] s = "/rel" -> [ok |-> TRUE, scheme |-> "", authority |-> "", path |-> "/rel"]
      [] OTHER -> [ok |-> FALSE, scheme |-> "", authority |-> "", path |-> ""]

\* A Member::new that takes any string for an endpoint.
MemberNewLenient(s) == [ok |-> TRUE, endpoint |-> ParseUri(s), error |-> NoError]

\* Member::new: parses the endpoint, failing with the parser's error.
MemberNew(s) ==
    LET u == ParseUri(s)
    IN  IF u.ok THEN [ok |-> TRUE, endpoint |-> u, error |-> NoError]
        ELSE [ok |-> FALSE, endpoint |-> u, error |-> ErrInvalidUri]

\* ------------------------------------------------------ client construction
NoClient == [status |-> "unbuilt", error |-> NoError, members |-> <<>>]

\* The loop of with_options: members are pushed up to the first parse
\* failure, which `?` turns into the function's result; with every endpoint
\* parsed the client is built, unless HttpClient::new fails (http_ok is
\* whether it succeeds).
RECURSIVE PushMembers(_, _, _)
PushMembers(endpoints, members, http_ok) ==
    IF endpoints = <<>>
    THEN IF http_ok THEN [status |-> "ok", error |-> NoError, members |-> members]
         ELSE [status |-> "err", error |-> ErrTls, members |-> <<>>]
    ELSE LET m == MemberNew(Head(endpoints))
         IN  IF m.ok THEN PushMembers(Tail(endpoints), Append(members, m.endpoint), http_ok)
             ELSE [status |-> "err", error |-> m.error, members |-> <<>>]

\* with_options without the guard on the number of endpoints.
with_options_unguarded(endpoints, http_ok) == PushMembers(endpoints, <<>>, http_ok)

\* Client::with_options.
with_options(endpoints, http_ok) ==
    IF Len(endpoints) < 1
    THEN [status |-> "err", error |-> ErrNoEndpoints, members |-> <<>>]
    ELSE PushMembers(endpoints, <<>>, http_ok)

\* ------------------------------------------------ request target building
\* kv.rs build_url: format!("{}v2/keys{}", endpoint, path).  The string is
\* kept as its parts; encoded says whether the path has been percent-encoded.
build_url(endpoint, path) == [base |-> endpoint, path |-> path, encoded |-> FALSE]

\* A path holding a character that a Uri may not contain.
HasIllegalUriChar(path) == path = "/a b"

\* Url::parse_with_params: needs an absolute base, and percent-encodes the
\* path.
UrlParse(s) ==
    IF s.base.scheme = "" THEN [ok |-> FALSE, url |-> s, error |-> ErrInvalidUrl]
    ELSE [ok |-> TRUE, url |-> [s EXCEPT !.encoded = TRUE], error |-> NoError]

\* Uri::from_str on a request target.
UriFromStr(s) ==
    IF ~s.encoded /\ HasIllegalUriChar(s.path)
    THEN [ok |-> FALSE, uri |-> s, error |-> ErrInvalidUri]
    ELSE [ok |-> TRUE, uri |-> s, error |-> NoError]

\* ----------------------------------------------------------- the transport
\* What one poll of an issued request may yield: still pending, a transport
\* error, or a response (status and body) served by the endpoint.
TransportOutcomes(op) ==
    {[t |-> "NotReady", status |-> 0, body |-> ""], [t |-> "Error", status |-> 0, body |-> ""]}
    \cup {[t |-> "Response", status |-> st, body |-> b] :
            st \in IF op \in {"members_add", "members_delete", "members_update"}
                   THEN MemberStatuses
                   ELSE Statuses,
            b \in Bodies}

\* ------------------------------------------- per-endpoint operation results
\* Result of polling one per-endpoint future; sent tells whether this poll
\* handed a request to the http client.
OpNotReady(sent) ==
    [res |-> "NotReady", data |-> "", error |-> NoError, sent |-> sent]

OpReady(data, sent) ==
    [res |-> "Ready", data |-> data, error |-> NoError, sent |-> sent]

OpErr(error, sent) ==
    [res |-> "Err", data |-> "", error |-> error, sent |-> sent]

\* The types a success body is decoded into.
PayloadTypes ==
    {"KeyValueInfo", "ListResponse", "Role", "Roles", "User", "Users", "AuthStatus",
     "LeaderStats", "SelfStats", "StoreStats", "VersionInfo"}

\* The payload types whose every field is an Option: auth.rs Roles (roles)
\* and Users (users).  serde ignores the fields it does not know and takes
\* a missing Option for None, so any JSON object decodes into them.
OptionalTypes == {"Roles", "Users"}

\* serde_json::from_slice::<T> on a body.  The ApiError payload is a JSON
\* object with none of the fields of a payload type; garbage is no JSON
\* object.
Decodes(body, type) ==
    \/ type \in PayloadTypes /\ body = "payload"
    \/ type = "ApiError" /\ body = "apierror"
    \/ type \in OptionalTypes /\ body = "apierror"

\* A classification that reports every other status as unexpected, without
\* decoding the body.
ClassifyGetUnexpected(status, body) ==
    IF status = 200
    THEN IF Decodes(body, "KeyValueInfo") THEN [ok |-> TRUE, data |-> "KeyValueInfo", error |-> NoError]
         ELSE [ok |-> FALSE, data |-> "", error |-> ErrSerialization]
    ELSE [ok |-> FALSE, data |-> "", error |-> ErrUnexpectedStatus(status)]

\* Response classification of raw_get and raw_delete: 200 is the success
\* status.
ClassifyGet(status, body) ==
    IF status = 200
    THEN IF Decodes(body, "KeyValueInfo") THEN [ok |-> TRUE, data |-> "KeyValueInfo", error |-> NoError]
         ELSE [ok |-> FALSE, data |-> "", error |-> ErrSerialization]
    ELSE IF Decodes(body, "ApiError") THEN [ok |-> FALSE, data |-> "", error |-> ErrApi]
         ELSE [ok |-> FALSE, data |-> "", error |-> ErrSerialization]

\* A classification that takes a success status for success without
\* decoding the body.
ClassifySetUndecoded(status, body) ==
    IF status \in {201, 200}
    THEN [ok |-> TRUE, data |-> "KeyValueInfo", error |-> NoError]
    ELSE IF Decodes(body, "ApiError") THEN [ok |-> FALSE, data |-> "", error |-> ErrApi]
         ELSE [ok |-> FALSE, data |-> "", error |-> ErrSerialization]

\* Response classification of raw_set: 201 and 200 are the success statuses.
ClassifySet(status, body) ==
    IF status \in {201, 200}
    THEN IF Decodes(body, "KeyValueInfo") THEN [ok |-> TRUE, data |-> "KeyValueInfo", error |-> NoError]
         ELSE [ok |-> FALSE, data |-> "", error |-> ErrSerialization]
    ELSE IF Decodes(body, "ApiError") THEN [ok |-> FALSE, data |-> "", error |-> ErrApi]
         ELSE [ok |-> FALSE, data |-> "", error |-> ErrSerialization]

\* A classification that takes 200 alone for a success.
ClassifyAuthStrict(status, body) ==
    IF status = 200 THEN [ok |-> TRUE, data |-> "Changed", error |-> NoError]
    ELSE [ok |-> FALSE, data |-> "", error |-> ErrUnexpectedStatus(status)]

\* Response classification of auth::enable and auth::disable: the body is
\* not read.
ClassifyAuth(status, body) ==
    CASE status = 200 -> [ok |-> TRUE, data |-> "Changed", error |-> NoError]
      [] status = 409 -> [ok |-> TRUE, data |-> "Unchanged", error |-> NoError]
      [] OTHER -> [ok |-> FALSE, data |-> "", error |-> ErrUnexpectedStatus(status)]

\* Response classification of members::list: 200 is the success status.
ClassifyList(status, body) ==
    IF status = 200
    THEN IF Decodes(body, "ListResponse") THEN [ok |-> TRUE, data |-> "Members", error |-> NoError]
         ELSE [ok |-> FALSE, data |-> "", error |-> ErrSerialization]
    ELSE IF Decodes(body, "ApiError") THEN [ok |-> FALSE, data |-> "", error |-> ErrApi]
         ELSE [ok |-> FALSE, data |-> "", error |-> ErrSerialization]

\* Response classification of the auth calls that return a role, a user or
\* a list of them (create_role, create_user, get_role, get_roles, get_user,
\* get_users, update_role, update_user), decoding into type: 200 is the
\* success status, the body of any other response is not decoded.
ClassifyRole(type, status, body) ==
    IF status = 200
    THEN IF Decodes(body, type) THEN [ok |-> TRUE, data |-> type, error |-> NoError]
         ELSE [ok |-> FALSE, data |-> "", error |-> ErrSerialization]
    ELSE [ok |-> FALSE, data |-> "", error |-> ErrUnexpectedStatus(status)]

\* Response classification of auth::delete_role and auth::delete_user: 200
\* is the success status; the body is not read.
ClassifyAuthDelete(status, body) ==
    IF status = 200 THEN [ok |-> TRUE, data |-> "()", error |-> NoError]
    ELSE [ok |-> FALSE, data |-> "", error |-> ErrUnexpectedStatus(status)]

\* Response classification of auth::status: 200 is the success status, the
\* body of any other response is decoded as an ApiError.
ClassifyAuthStatus(status, body) ==
    IF status = 200
    THEN IF Decodes(body, "AuthStatus") THEN [ok |-> TRUE, data |-> "bool", error |-> NoError]
         ELSE [ok |-> FALSE, data |-> "", error |-> ErrSerialization]
    ELSE IF Decodes(body, "ApiError") THEN [ok |-> FALSE, data |-> "", error |-> ErrApi]
         ELSE [ok |-> FALSE, data |-> "", error |-> ErrSerialization]

\* Response classification of members::add (success is 201), members::delete
\* and members::update (success is 204): a success carries no data and its
\* body is not decoded.
ClassifyMember(success, status, body) ==
    IF status = success THEN [ok |-> TRUE, data |-> "()", error |-> NoError]
    ELSE IF Decodes(body, "ApiError") THEN [ok |-> FALSE, data |-> "", error |-> ErrApi]
         ELSE [ok |-> FALSE, data |-> "", error |-> ErrSerialization]

\* Response classification of Client::versions: 200 is the success status.
ClassifyVersion(status, body) ==
    IF status = 200
    THEN IF Decodes(body, "VersionInfo") THEN [ok |-> TRUE, data |-> "VersionInfo", error |-> NoError]
         ELSE [ok |-> FALSE, data |-> "", error |-> ErrSerialization]
    ELSE IF Decodes(body, "ApiError") THEN [ok |-> FALSE, data |-> "", error |-> ErrApi]
         ELSE [ok |-> FALSE, data |-> "", error |-> ErrSerialization]

\* Response classification of the stats calls, decoding into type: 200 is
\* the success status.
ClassifyStats(type, status, body) ==
    IF status = 200
    THEN IF Decodes(body, type) THEN [ok |-> TRUE, data |-> type, error |-> NoError]
         ELSE [ok |-> FALSE, data |-> "", error |-> ErrSerialization]
    ELSE IF Decodes(body, "ApiError") THEN [ok |-> FALSE, data |-> "", error |-> ErrApi]
         ELSE [ok |-> FALSE, data |-> "", error |-> ErrSerialization]

\* The classification the closure of each operation applies to a response.
Classify(op, status, body) ==
    CASE op \in {"raw_get", "raw_delete"} -> ClassifyGet(status, body)
      [] op = "raw_set" -> ClassifySet(status, body)
      [] op = "members_list" -> ClassifyList(status, body)
      [] op = "members_add" -> ClassifyMember(201, status, body)
      [] op \in {"members_delete", "members_update"} -> ClassifyMember(204, status, body)
      [] op \in {"create_role", "get_role", "update_role"} -> ClassifyRole("Role", status, body)
      [] op \in {"create_user", "get_user", "update_user"} -> ClassifyRole("User", status, body)
      [] op = "get_roles" -> ClassifyRole("Roles", status, body)
      [] op = "get_users" -> ClassifyRole("Users", status, body)
      [] op \in {"delete_role", "delete_user"} -> ClassifyAuthDelete(status, body)
      [] op = "status" -> ClassifyAuthStatus(status, body)
      [] op \in {"enable", "disable"} -> ClassifyAuth(status, body)
      [] op = "leader_stats" -> ClassifyStats("LeaderStats", status, body)
      [] op = "self_stats" -> ClassifyStats("SelfStats", status, body)
      [] op = "store_stats" -> ClassifyStats("StoreStats", status, body)
      [] op = "versions" -> ClassifyVersion(status, body)

\* The request target the closure of an operation builds for an endpoint:
\* raw_get and raw_delete go through Url::parse_with_params and then
\* Uri::from_str, raw_set and the auth, members, stats and version calls
\* through Uri::from_str only.
RequestUri(op, endpoint, key) ==
    IF op \in {"raw_get", "raw_delete"}
    THEN LET url == UrlParse(build_url(endpoint, key))
         IN  IF url.ok THEN UriFromStr(url.url) ELSE [ok |-> FALSE, uri |-> url.url, error |-> url.error]
    ELSE UriFromStr(build_url(endpoint, key))

\* One poll of the transport's response future, answered with x.
ResponsePoll(op, x, sent) ==
    CASE x.t = "NotReady" -> OpNotReady(sent)
      [] x.t = "Error" -> OpErr(ErrHttp, sent)
      [] OTHER -> LET c == Classify(op, x.status, x.body)
                  IN  IF c.ok THEN OpReady(c.data, sent) ELSE OpErr(c.error, sent)

\* A per-endpoint future that hands a request to the http client at each of
\* its polls.
OperationPollResend(callback, future) ==
    LET target == RequestUri(callback.op, future.endpoint, callback.key)
    IN  IF target.ok
        THEN {ResponsePoll(callback.op, x, TRUE) : x \in TransportOutcomes(callback.op)}
        ELSE {OpErr(target.error, FALSE)}

\* All results one poll of the per-endpoint future may have.  A future that
\* was just created first resolves its request target; only if that
\* succeeds is a request handed to the http client.
OperationPoll(callback, future) ==
    IF future.stage = "created"
    THEN LET target == RequestUri(callback.op, future.endpoint, callback.key)
         IN  IF target.ok
             THEN {ResponsePoll(callback.op, x, TRUE) : x \in TransportOutcomes(callback.op)}
             ELSE {OpErr(target.error, FALSE)}
    ELSE {ResponsePoll(callback.op, x, FALSE) : x \in TransportOutcomes(callback.op)}

\* ----------------------------------------------------------------- futures
\* A callback: the operation, the method of the request it sends, the path
\* given to build_url, the pairs of the query string and the pairs of the
\* request body.
Callback(op, method, key, query_pairs, http_options) ==
    [op |-> op, method |-> method, key |-> key, query_pairs |-> query_pairs,
     http_options |-> http_options]

NoCallback == Callback("none", "", "", {}, <<>>)

NoFuture ==
    [type |-> "none", callback |-> NoCallback, current_future |-> None,
     endpoints |-> <<>>, errors |-> <<>>, value |-> <<>>]

\* A first_ok that calls the callback on the first endpoint at once.
first_ok_eager(endpoints, callback) ==
    [type |-> "FirstOk", callback |-> callback,
     current_future |-> IF endpoints = <<>> THEN None
                        ELSE Some([endpoint |-> Head(endpoints), stage |-> "created"]),
     endpoints |-> IF endpoints = <<>> THEN <<>> ELSE Tail(endpoints),
     errors |-> <<>>, value |-> <<>>]

\* first_ok: the failover future over the endpoints; nothing is started.
first_ok(endpoints, callback) ==
    [type |-> "FirstOk", callback |-> callback, current_future |-> None,
     endpoints |-> endpoints, errors |-> <<>>, value |-> <<>>]

\* The future of one request to one endpoint; nothing is sent yet.
request(endpoint, callback) ==
    [type |-> "Request", callback |-> callback,
     current_future |-> Some([endpoint |-> endpoint, stage |-> "created"]),
     endpoints |-> <<>>, errors |-> <<>>, value |-> <<>>]

\* Err(errors).into_future(): a future that is already resolved.
FutureResultErr(errors) ==
    [type |-> "FutureResult", callback |-> NoCallback, current_future |-> None,
     endpoints |-> <<>>, errors |-> <<>>, value |-> errors]

\* Poll results of the future handed to the caller.
\* from is the endpoint whose response the item was decoded from.
Unpolled == [tag |-> "Unpolled", data |-> "", from |-> None, errors |-> <<>>]

PollNotReady == [tag |-> "NotReady", data |-> "", from |-> None, errors |-> <<>>]

PollReady(data, from) == [tag |-> "Ready", data |-> data, from |-> Some(from), errors |-> <<>>]

PollErr(errors) == [tag |-> "Err", data |-> "", from |-> None, errors |-> errors]

\* is_empty testing is_some where the code tests is_none.
is_empty_inverted(conditions) == conditions.modified_index # None /\ conditions.value # None

\* ComparisonConditions::is_empty.
is_empty(conditions) == conditions.modified_index = None /\ conditions.value = None

\* DeleteOptions::default().
DeleteOptionsDefault == [conditions |-> None, dir |-> None, recursive |-> None]

\* bool::to_string.
BoolToString(b) == IF b THEN "true" ELSE "false"

\* The pairs raw_delete puts in the query string (a HashMap).
DeleteQueryPairs(options) ==
    (IF options.recursive # None THEN {<<"recursive", BoolToString(options.recursive[1])>>} ELSE {})
    \cup (IF options.dir # None THEN {<<"dir", BoolToString(options.dir[1])>>} ELSE {})
    \cup (IF options.conditions # None /\ options.conditions[1].modified_index # None
          THEN {<<"prevIndex", ToString(options.conditions[1].modified_index[1])>>}
          ELSE {})
    \cup (IF options.conditions # None /\ options.conditions[1].value # None
          THEN {<<"prevValue", options.conditions[1].value[1]>>}
          ELSE {})

\* raw_delete: rejects empty conditions, else fails over the endpoints.
raw_delete(c, key, options) ==
    IF options.conditions # None /\ is_empty(options.conditions[1])
    THEN FutureResultErr(<<ErrInvalidConditions>>)
    ELSE first_ok(c.members,
                  Callback("raw_delete", "DELETE", key, DeleteQueryPairs(options), <<>>))

\* InternalGetOptions::default(), of the fields raw_get reads.
InternalGetOptionsDefault ==
    [recursive |-> FALSE, sort |-> None, wait |-> FALSE, wait_index |-> None]

\* The pairs raw_get puts in the query string (a HashMap).
GetQueryPairs(options) ==
    {<<"recursive", BoolToString(options.recursive)>>}
    \cup (IF options.sort # None THEN {<<"sorted", BoolToString(options.sort[1])>>} ELSE {})
    \cup (IF options.wait THEN {<<"wait", "true">>} ELSE {})
    \cup (IF options.wait_index # None
          THEN {<<"waitIndex", ToString(options.wait_index[1])>>}
          ELSE {})

\* raw_get: fails over the endpoints.
raw_get(c, key, options) ==
    first_ok(c.members, Callback("raw_get", "GET", key, GetQueryPairs(options), <<>>))

\* SetOptions::default().
SetOptionsDefault ==
    [conditions |-> None, create_in_order |-> FALSE, dir |-> None, prev_exist |-> None,
     refresh |-> FALSE, ttl |-> None, value |-> None]

\* The pairs raw_set pushes to the request body, in the order of the pushes.
HttpOptions(options) ==
    LET prev_exist == IF options.prev_exist # None THEN options.prev_exist[1] ELSE FALSE
    IN  (IF options.value # None THEN <<(<<"value", options.value[1]>>)>> ELSE <<>>)
        \o (IF options.ttl # None THEN <<(<<"ttl", ToString(options.ttl[1])>>)>> ELSE <<>>)
        \o (IF options.dir # None THEN <<(<<"dir", BoolToString(options.dir[1])>>)>> ELSE <<>>)
        \o (IF prev_exist \/ options.refresh
            THEN <<(<<"prevExist", BoolToString(prev_exist \/ options.refresh)>>)>>
            ELSE <<>>)
        \o (IF options.refresh THEN <<(<<"refresh", "true">>)>> ELSE <<>>)
        \o (IF options.conditions # None /\ options.conditions[1].modified_index # None
            THEN <<(<<"prevIndex", ToString(options.conditions[1].modified_index[1])>>)>>
            ELSE <<>>)
        \o (IF options.conditions # None /\ options.conditions[1].value # None
            THEN <<(<<"prevValue", options.conditions[1].value[1]>>)>>
            ELSE <<>>)

\* raw_set: rejects empty conditions, else fails over the endpoints; the
\* request is a POST for an in-order creation and a PUT otherwise.
raw_set(c, key, options) ==
    IF options.conditions # None /\ is_empty(options.conditions[1])
    THEN FutureResultErr(<<ErrInvalidConditions>>)
    ELSE first_ok(c.members,
                  Callback("raw_set", IF options.create_in_order THEN "POST" ELSE "PUT", key,
                           {}, HttpOptions(options)))

\* auth::enable (a PUT) and auth::disable (a DELETE), both on /enable.
auth_change(c, op) ==
    first_ok(c.members,
             Callback(op, IF op = "enable" THEN "PUT" ELSE "DELETE", "/enable", {}, <<>>))

\* auth::status.
auth_status(c) == first_ok(c.members, Callback("status", "GET", "/enable", {}, <<>>))

\* The path of the role an auth call names.
RolePath == "/roles/r"

\* The path of the user an auth call names.
UserPath == "/users/u"

\* auth::create_role.
create_role(c) == first_ok(c.members, Callback("create_role", "PUT", RolePath, {}, <<>>))

\* auth::create_user.
create_user(c) == first_ok(c.members, Callback("create_user", "PUT", UserPath, {}, <<>>))

\* auth::delete_role.
delete_role(c) == first_ok(c.members, Callback("delete_role", "DELETE", RolePath, {}, <<>>))

\* auth::delete_user.
delete_user(c) == first_ok(c.members, Callback("delete_user", "DELETE", UserPath, {}, <<>>))

\* auth::get_role.
get_role(c) == first_ok(c.members, Callback("get_role", "GET", RolePath, {}, <<>>))

\* auth::get_roles.
get_roles(c) == first_ok(c.members, Callback("get_roles", "GET", "/roles", {}, <<>>))

\* auth::get_user.
get_user(c) == first_ok(c.members, Callback("get_user", "GET", UserPath, {}, <<>>))

\* auth::get_users.
get_users(c) == first_ok(c.members, Callback("get_users", "GET", "/users", {}, <<>>))

\* auth::update_role.
update_role(c) == first_ok(c.members, Callback("update_role", "PUT", RolePath, {}, <<>>))

\* auth::update_user.
update_user(c) == first_ok(c.members, Callback("update_user", "PUT", UserPath, {}, <<>>))

\* The path of the member a members call names.
MemberPath == "/id"

\* members::add; the list of peer URLs always serializes.
members_add(c) == first_ok(c.members, Callback("members_add", "POST", "", {}, <<>>))

\* members::delete.
members_delete(c) ==
    first_ok(c.members, Callback("members_delete", "DELETE", MemberPath, {}, <<>>))

\* members::list.
members_list(c) == first_ok(c.members, Callback("members_list", "GET", "", {}, <<>>))

\* members::update; the list of peer URLs always serializes.
members_update(c) ==
    first_ok(c.members, Callback("members_update", "PUT", MemberPath, {}, <<>>))

\* stats::leader_stats: one request, to the first endpoint of the client.
leader_stats(c) == request(c.members[1], Callback("leader_stats", "GET", "", {}, <<>>))

KvApis ==
    {"compare_and_delete", "compare_and_swap", "create", "create_dir", "create_in_order",
     "delete", "delete_dir", "get", "set", "refresh", "set_dir", "update", "update_dir",
     "watch"}

AuthApis ==
    {"create_role", "create_user", "delete_role", "delete_user", "disable", "enable",
     "get_role", "get_roles", "get_user", "get_users", "status", "update_role",
     "update_user"}

MembersApis == {"members_add", "members_delete", "members_list", "members_update"}

StatsApis == {"leader_stats"}

Apis == KvApis \cup AuthApis \cup MembersApis \cup StatsApis

Conditions(current_value, current_modified_index) ==
    [value |-> current_value, modified_index |-> current_modified_index]

\* kv::watch wraps its work in a Timeout when given a duration: the state of
\* the Timeout's delay, "none" for a call without one.  A delay is pending
\* until its duration has elapsed or its timer has failed.
WatchDelay(a) ==
    IF a.api = "watch" /\ a.timeout # None THEN "pending" ELSE "none"

\* The public API functions: the future each returns.  get is called with
\* GetOptions::default(), watch with an index and recursion of
\* WatchOptions::default(); the work of watch is raw_get, its error list
\* carried by WatchError::Other.
ApiCall(c, a) ==
    CASE a.api = "compare_and_delete" ->
            raw_delete(c, a.key,
                       [DeleteOptionsDefault EXCEPT
                           !.conditions = Some(Conditions(a.current_value,
                                                          a.current_modified_index))])
      [] a.api = "compare_and_swap" ->
            raw_set(c, a.key,
                    [SetOptionsDefault EXCEPT
                        !.conditions = Some(Conditions(a.current_value, a.current_modified_index)),
                        !.ttl = a.ttl,
                        !.value = Some("bar")])
      [] a.api = "create" ->
            raw_set(c, a.key, [SetOptionsDefault EXCEPT !.prev_exist = Some(FALSE),
                                                        !.ttl = a.ttl,
                                                        !.value = Some("bar")])
      [] a.api = "create_dir" ->
            raw_set(c, a.key, [SetOptionsDefault EXCEPT !.dir = Some(TRUE),
                                                        !.prev_exist = Some(FALSE),
                                                        !.ttl = a.ttl])
      [] a.api = "create_in_order" ->
            raw_set(c, a.key, [SetOptionsDefault EXCEPT !.create_in_order = TRUE,
                                                        !.ttl = a.ttl,
                                                        !.value = Some("bar")])
      [] a.api = "delete" ->
            raw_delete(c, a.key, [DeleteOptionsDefault EXCEPT !.recursive = Some(a.recursive)])
      [] a.api = "delete_dir" ->
            raw_delete(c, a.key, [DeleteOptionsDefault EXCEPT !.dir = Some(TRUE)])
      [] a.api = "get" ->
            raw_get(c, a.key, [InternalGetOptionsDefault EXCEPT !.sort = Some(FALSE)])
      [] a.api = "set" ->
            raw_set(c, a.key, [SetOptionsDefault EXCEPT !.ttl = a.ttl, !.value = Some("bar")])
      [] a.api = "refresh" ->
            raw_set(c, a.key, [SetOptionsDefault EXCEPT !.ttl = a.ttl,
                                                        !.refresh = TRUE,
                                                        !.prev_exist = Some(TRUE)])
      [] a.api = "set_dir" ->
            raw_set(c, a.key, [SetOptionsDefault EXCEPT !.dir = Some(TRUE), !.ttl = a.ttl])
      [] a.api = "update" ->
            raw_set(c, a.key, [SetOptionsDefault EXCEPT !.prev_exist = Some(TRUE),
                                                        !.ttl = a.ttl,
                                                        !.value = Some("bar")])
      [] a.api = "update_dir" ->
            raw_set(c, a.key, [SetOptionsDefault EXCEPT !.dir = Some(TRUE),
                                                        !.prev_exist = Some(TRUE),
                                                        !.ttl = a.ttl])
      [] a.api = "watch" -> raw_get(c, a.key, [InternalGetOptionsDefault EXCEPT !.wait = TRUE])
      [] a.api = "create_role" -> create_role(c)
      [] a.api = "create_user" -> create_user(c)
      [] a.api = "delete_role" -> delete_role(c)
      [] a.api = "delete_user" -> delete_user(c)
      [] a.api \in {"disable", "enable"} -> auth_change(c, a.api)
      [] a.api = "get_role" -> get_role(c)
      [] a.api = "get_roles" -> get_roles(c)
      [] a.api = "get_user" -> get_user(c)
      [] a.api = "get_users" -> get_users(c)
      [] a.api = "status" -> auth_status(c)
      [] a.api = "update_role" -> update_role(c)
      [] a.api = "update_user" -> update_user(c)
      [] a.api = "members_add" -> members_add(c)
      [] a.api = "members_delete" -> members_delete(c)
      [] a.api = "members_list" -> members_list(c)
      [] a.api = "members_update" -> members_update(c)
      [] a.api = "leader_stats" -> leader_stats(c)

VARIABLES
    supplied,   \* the endpoint list handed to with_options
    client,     \* the result of with_options: the Client or the error
    args,       \* the API call in progress and its arguments
    fut,        \* the future that call returned
    delay,      \* the delay of the Timeout around it: none, pending or elapsed
    invoked,    \* history: endpoints the callback has been invoked with
    requests,   \* history: endpoints a request was handed to the http client for
    outcomes,   \* history: completed per-endpoint operations, in completion order
    answered,   \* history: the response the operation completed last was computed from
    result,     \* what the last poll of fut returned
    peer,       \* a second call on the same client, in progress at the same time
    stream      \* the stream of a stats call: its futures and its run queue

vars == <<supplied, client, args, fut, delay, invoked, requests, outcomes, answered, result, peer, stream>>


\* ------------------------------------------------------- FirstOk::poll
\* The state one poll works on: the future and the history it extends.
Bundle(f, inv, req, out, res) ==
    [fut |-> f, invoked |-> inv, requests |-> req, outcomes |-> out, result |-> res]

Outcome(endpoint, r) ==
    [endpoint |-> endpoint, res |-> r.res, data |-> r.data, error |-> r.error]

\* The responses (status and body) a completed operation may have been
\* computed from: none when no request was made or the transport failed.
Answers(callback, outcome) ==
    IF ~RequestUri(callback.op, outcome.endpoint, callback.key).ok
    THEN {None}
    ELSE {IF x.t = "Response" THEN Some([status |-> x.status, body |-> x.body]) ELSE None :
            x \in {y \in TransportOutcomes(callback.op) :
                      /\ y.t # "NotReady"
                      /\ Outcome(outcome.endpoint, ResponsePoll(callback.op, y, FALSE)) = outcome}}

\* An iterator that yields the endpoints from the back.
IterNextBack(endpoints) ==
    IF endpoints = <<>> THEN [item |-> None, rest |-> <<>>]
    ELSE [item |-> Some(endpoints[Len(endpoints)]), rest |-> SubSeq(endpoints, 1, Len(endpoints) - 1)]

\* self.endpoints.next() of the IntoIter.
IterNext(endpoints) ==
    IF endpoints = <<>> THEN [item |-> None, rest |-> <<>>]
    ELSE [item |-> Some(Head(endpoints)), rest |-> Tail(endpoints)]

\* Keeping the final error only.
PushErrorLast(errors, error) == <<error>>

\* Not recording an error equal to the one recorded last.
PushErrorDedup(errors, error) ==
    IF errors # <<>> /\ errors[Len(errors)] = error THEN errors ELSE Append(errors, error)

\* self.errors.push(error).
PushError(errors, error) == Append(errors, error)

\* replace with its arguments swapped: the empty list is what comes out.
ReplaceErrorsSwapped(errors) == [taken |-> <<>>, left |-> errors]

\* replace(&mut self.errors, vec![]): the value taken out and the value left.
ReplaceErrors(errors) == [taken |-> errors, left |-> <<>>]

\* NotReady without storing the taken future back.
OnNotReadyForget(s, current_future) == {[s EXCEPT !.result = PollNotReady]}

\* A future that is not complete is given up and the call fails.
OnNotReadyGiveUp(s, current_future) ==
    {[s EXCEPT !.result = PollErr(Append(s.fut.errors, ErrHttp))]}

\* A future that is not complete is stored back, and the wait is recorded
\* as a failure of the endpoint.
OnNotReadyRecord(s, current_future) ==
    {[s EXCEPT !.fut.current_future = Some([current_future EXCEPT !.stage = "sent"]),
               !.fut.errors = PushError(@, ErrHttp),
               !.result = PollNotReady]}

\* The per-endpoint future is not complete: it is stored back and the poll
\* returns NotReady.
OnNotReady(s, current_future) ==
    {[s EXCEPT !.fut.current_future = Some([current_future EXCEPT !.stage = "sent"]),
               !.result = PollNotReady]}

RECURSIVE poll(_)

\* A completed item that is recorded without ending the poll.
OnReadyContinue(s, current_future, r) ==
    poll([s EXCEPT !.outcomes = Append(@, Outcome(current_future.endpoint, r))])

\* A completed item after which the FirstOk gives up its remaining endpoints.
OnReadyFused(s, current_future, r) ==
    {[s EXCEPT !.outcomes = Append(@, Outcome(current_future.endpoint, r)),
               !.fut.endpoints = <<>>,
               !.result = PollReady(r.data, current_future.endpoint)]}

\* The per-endpoint future completed with an item: the poll returns it.
OnReady(s, current_future, r) ==
    {[s EXCEPT !.outcomes = Append(@, Outcome(current_future.endpoint, r)),
               !.result = PollReady(r.data, current_future.endpoint)]}

\* An Api error that ends the call at once with the errors so far.
OnErrorApiFatal(s, current_future, r) ==
    LET pushed == [s EXCEPT !.fut.errors = PushError(@, r.error),
                            !.outcomes = Append(@, Outcome(current_future.endpoint, r))]
    IN  IF r.error.kind = "Api"
        THEN {[pushed EXCEPT !.fut.errors = <<>>, !.result = PollErr(pushed.fut.errors)]}
        ELSE poll(pushed)

\* A request target that does not build ends the call at once with the
\* errors so far.
OnErrorUrlFatal(s, current_future, r) ==
    LET pushed == [s EXCEPT !.fut.errors = PushError(@, r.error),
                            !.outcomes = Append(@, Outcome(current_future.endpoint, r))]
    IN  IF r.error.kind \in {"InvalidUrl", "InvalidUri"}
        THEN {[pushed EXCEPT !.fut.errors = <<>>, !.result = PollErr(pushed.fut.errors)]}
        ELSE poll(pushed)

\* An error that is dropped instead of pushed.
OnErrorUnrecorded(s, current_future, r) ==
    poll([s EXCEPT !.outcomes = Append(@, Outcome(current_future.endpoint, r))])

\* A first failure that puts the endpoint back at the head of the iterator.
OnErrorRetryOnce(s, current_future, r) ==
    poll([s EXCEPT !.fut.errors = PushError(@, r.error),
                   !.fut.endpoints = IF s.fut.errors = <<>> /\ Len(s.invoked) = 1
                                     THEN <<current_future.endpoint>> \o @ ELSE @,
                   !.outcomes = Append(@, Outcome(current_future.endpoint, r))])

\* The per-endpoint future completed with an error: it is pushed and the
\* poll starts over.
OnError(s, current_future, r) ==
    poll([s EXCEPT !.fut.errors = PushError(@, r.error),
                   !.outcomes = Append(@, Outcome(current_future.endpoint, r))])

\* No future is in flight and an endpoint is left: the callback is invoked
\* with it, the future it returns is stored, and the poll starts over.
OnEndpoint(s, endpoint, rest) ==
    poll([s EXCEPT !.fut.endpoints = rest,
                   !.fut.current_future = Some([endpoint |-> endpoint, stage |-> "created"]),
                   !.invoked = Append(@, endpoint)])

\* An exhausted iterator that makes the poll wait instead of failing.
OnExhaustedPending(s) == {[s EXCEPT !.result = PollNotReady]}

\* No future is in flight and no endpoint is left: the poll returns the
\* errors, leaving an empty list behind.
OnExhausted(s) ==
    LET e == ReplaceErrors(s.fut.errors)
    IN  {[s EXCEPT !.fut.errors = e.left, !.result = PollErr(e.taken)]}

\* FirstOk::poll: every state one call of poll may end in, over all the
\* answers the per-endpoint futures may give while it runs.  s is self, bound
\* to its value once on entry.
poll(self) ==
    UNION {
        IF s.fut.current_future # None
        THEN LET current_future == s.fut.current_future[1]
                 taken == [s EXCEPT !.fut.current_future = None]
             IN  UNION {
                     LET t == IF r.sent
                              THEN [taken EXCEPT !.requests = Append(@, current_future.endpoint)]
                              ELSE taken
                     IN  CASE r.res = "NotReady" -> OnNotReady(t, current_future)
                           [] r.res = "Ready" -> OnReady(t, current_future, r)
                           [] OTHER -> OnError(t, current_future, r)
                     : r \in OperationPoll(s.fut.callback, current_future)}
        ELSE LET n == IterNext(s.fut.endpoints)
             IN  IF n.item # None THEN OnEndpoint(s, n.item[1], n.rest)
                 ELSE OnExhausted(s)
        : s \in {self}}

RECURSIVE pollNesting(_)

\* FirstOk::poll, counting the calls of poll that are on the stack: the
\* depths one call of poll on the FirstOk f may reach.  poll calls itself
\* after pushing an error and after storing the future of a new endpoint.
pollNesting(self) ==
    UNION {
        IF f.current_future # None
        THEN LET current_future == f.current_future[1]
                 taken == [f EXCEPT !.current_future = None]
             IN  UNION {
                     IF r.res \in {"NotReady", "Ready"} THEN {1}
                     ELSE {1 + d : d \in pollNesting([taken EXCEPT !.errors = PushError(@, r.error)])}
                     : r \in OperationPoll(f.callback, current_future)}
        ELSE LET n == IterNext(f.endpoints)
             IN  IF n.item # None
                 THEN {1 + d : d \in pollNesting(
                          [f EXCEPT !.endpoints = n.rest,
                                    !.current_future = Some([endpoint |-> n.item[1], stage |-> "created"])])}
                 ELSE {1}
        : f \in {self}}

\* FutureResult::poll: returns the stored result.
FutureResultPoll(s) == {[s EXCEPT !.result = PollErr(s.fut.value)]}

\* Poll of the future of one request: its result is the result of the
\* request, an error being the single Error of the call.
RequestPoll(s) ==
    LET current_future == s.fut.current_future[1]
        begun == IF current_future.stage = "created"
                 THEN [s EXCEPT !.invoked = Append(@, current_future.endpoint)]
                 ELSE s
    IN  {LET t == IF r.sent
                  THEN [begun EXCEPT !.requests = Append(@, current_future.endpoint)]
                  ELSE begun
         IN  CASE r.res = "NotReady" ->
                    [t EXCEPT !.fut.current_future = Some([current_future EXCEPT !.stage = "sent"]),
                              !.result = PollNotReady]
               [] r.res = "Ready" ->
                    [t EXCEPT !.fut.current_future = None,
                              !.outcomes = Append(@, Outcome(current_future.endpoint, r)),
                              !.result = PollReady(r.data, current_future.endpoint)]
               [] OTHER ->
                    [t EXCEPT !.fut.current_future = None,
                              !.outcomes = Append(@, Outcome(current_future.endpoint, r)),
                              !.result = PollErr(<<r.error>>)]
         : r \in OperationPoll(s.fut.callback, current_future)}

\* Poll of the future an API call returned.
FuturePoll(s) ==
    CASE s.fut.type = "FirstOk" -> poll(s)
      [] s.fut.type = "Request" -> RequestPoll(s)
      [] OTHER -> FutureResultPoll(s)

\* WatchError::Timeout.
WatchErrorTimeout == [tag |-> "Timeout", data |-> "", from |-> None, errors |-> <<>>]

\* The error of a Timeout: the inner future's error, the elapsed delay, or
\* the error of the timer; into_inner() is Some for the first alone.
TimeoutErrorInner(inner) == [kind |-> "inner", inner |-> inner]

TimeoutErrorElapsed == [kind |-> "elapsed", inner |-> Unpolled]

TimeoutErrorTimer == [kind |-> "timer", inner |-> Unpolled]

\* A mapping that reports every error of the Timeout as a timeout.
WatchMapErrTimeout(e) == WatchErrorTimeout

\* The closure watch maps the Timeout's error with: the inner WatchError if
\* there is one, WatchError::Timeout if not.
WatchMapErr(e) ==
    IF e.kind = "inner" THEN e.inner ELSE WatchErrorTimeout

\* A poll that never looks at the delay.
TimeoutPollUnbounded(s, d) == FuturePoll(s)

\* Poll of the future watch returns: the work itself without a duration; with
\* one, the Timeout polls the work first and the delay only when the work is
\* not ready.  The delay is then not ready, has elapsed, or returns the
\* error of its timer.
TimeoutPoll(s, d) ==
    IF d = "none"
    THEN FuturePoll(s)
    ELSE {CASE t.result.tag = "Err" ->
                 [t EXCEPT !.result = WatchMapErr(TimeoutErrorInner(t.result))]
            [] t.result.tag = "NotReady" /\ d = "elapsed" ->
                 [t EXCEPT !.result = WatchMapErr(TimeoutErrorElapsed)]
            [] t.result.tag = "NotReady" /\ d = "failed" ->
                 [t EXCEPT !.result = WatchMapErr(TimeoutErrorTimer)]
            [] OTHER -> t
          : t \in FuturePoll(s)}

\* ------------------------------------------------------------ state machine
NoArgs ==
    [api |-> "none", key |-> "", current_value |-> None, current_modified_index |-> None,
     recursive |-> FALSE, timeout |-> None, ttl |-> None]

EndpointLists == UNION {[1..n -> EndpointStrings] : n \in 0..MaxEndpoints}

\* Arguments of the API calls: the key for the key-value calls, the
\* conditions for the compare calls, the duration for watch.
ApiArgs ==
    {[NoArgs EXCEPT !.api = a, !.key = k] :
        a \in {"get", "set", "create", "delete"}, k \in Keys}
    \cup {[NoArgs EXCEPT !.api = "update", !.key = "/foo"]}
    \cup {[NoArgs EXCEPT !.api = a, !.key = "/foo", !.current_value = v,
                         !.current_modified_index = i] :
        a \in {"compare_and_swap", "compare_and_delete"},
        v \in {None, Some("bar")}, i \in {None, Some(1)}}
    \cup {[NoArgs EXCEPT !.api = "watch", !.key = "/foo", !.timeout = t] : t \in {None, Some(1)}}
    \cup {[NoArgs EXCEPT !.api = a] :
            a \in {"enable", "disable", "create_role", "members_list", "leader_stats"}}

\* No stream.
NoStream == [futures |-> <<>>, queue |-> <<>>]

\* No second call.
NoPeer ==
    [args |-> NoArgs, fut |-> NoFuture, invoked |-> <<>>, requests |-> <<>>, outcomes |-> <<>>,
     result |-> Unpolled]

Resolved == result.tag \in {"Ready", "Err", "Timeout"}

Init ==
    /\ supplied = <<>>
    /\ client = NoClient
    /\ args = NoArgs
    /\ fut = NoFuture
    /\ delay = "none"
    /\ invoked = <<>>
    /\ requests = <<>>
    /\ outcomes = <<>>
    /\ answered = None
    /\ result = Unpolled
    /\ peer = NoPeer
    /\ stream = NoStream

\* The caller constructs the client.
Construct(endpoints, http_ok) ==
    /\ client.status = "unbuilt"
    /\ supplied' = endpoints
    /\ client' = with_options(endpoints, http_ok)
    /\ UNCHANGED <<args, fut, delay, invoked, requests, outcomes, answered, result, peer, stream>>

\* The caller calls an API function on the client and holds the future it
\* returns.
Call(a) ==
    /\ client.status = "ok"
    /\ fut.type = "none"
    /\ args' = a
    /\ fut' = ApiCall(client, a)
    /\ delay' = WatchDelay(a)
    /\ invoked' = <<>>
    /\ requests' = <<>>
    /\ outcomes' = <<>>
    /\ answered' = None
    /\ result' = Unpolled
    /\ UNCHANGED <<supplied, client, peer, stream>>

\* The executor polls the future; a future that has resolved is not polled
\* again.
Poll ==
    /\ fut.type # "none"
    /\ ~Resolved
    /\ \E s \in TimeoutPoll(Bundle(fut, invoked, requests, outcomes, result), delay) :
          /\ fut' = s.fut
          /\ invoked' = s.invoked
          /\ requests' = s.requests
          /\ outcomes' = s.outcomes
          /\ answered' \in IF Len(s.outcomes) > Len(outcomes)
                           THEN Answers(fut.callback, s.outcomes[Len(s.outcomes)])
                           ELSE {answered}
          /\ result' = s.result
    /\ UNCHANGED <<supplied, client, args, delay, peer, stream>>

\* The duration given to watch lapses while the call is unresolved.
Elapse ==
    /\ fut.type # "none"
    /\ ~Resolved
    /\ delay = "pending"
    /\ delay' = "elapsed"
    /\ UNCHANGED <<supplied, client, args, fut, invoked, requests, outcomes, answered, result, peer, stream>>

\* The timer the delay of the Timeout is registered with fails (it is shut
\* down or at capacity) while the call is unresolved: the delay returns an
\* error from then on.
TimerFail ==
    /\ fut.type # "none"
    /\ ~Resolved
    /\ delay = "pending"
    /\ delay' = "failed"
    /\ UNCHANGED <<supplied, client, args, fut, invoked, requests, outcomes, answered, result, peer, stream>>

\* The caller drops the future, resolved or not.
Drop ==
    /\ fut.type # "none"
    /\ args' = NoArgs
    /\ fut' = NoFuture
    /\ delay' = "none"
    /\ invoked' = <<>>
    /\ requests' = <<>>
    /\ outcomes' = <<>>
    /\ answered' = None
    /\ result' = Unpolled
    /\ UNCHANGED <<supplied, client, peer, stream>>

Next ==
    \/ \E endpoints \in EndpointLists, http_ok \in BOOLEAN : Construct(endpoints, http_ok)
    \/ \E a \in ApiArgs : Call(a)
    \/ Poll
    \/ Elapse
    \/ TimerFail
    \/ Drop

Spec == Init /\ [][Next]_vars

\* ------------------------------------------ every public API function
MaxApiEndpoints == 2

ApiEndpointLists == UNION {[1..n -> EndpointStrings] : n \in 0..MaxApiEndpoints}

\* A call of each public function that returns a future: the key-value
\* calls on a key, with and without a time to live (refresh always has one),
\* delete with and without recursion, the compare calls with both
\* conditions; then the auth, members and stats calls.
AllApiArgs ==
    {[NoArgs EXCEPT !.api = a, !.key = "/foo"] : a \in KvApis \ {"refresh"}}
    \cup {[NoArgs EXCEPT !.api = a, !.key = "/foo", !.ttl = Some(30)] :
            a \in {"set", "refresh", "create_dir"}}
    \cup {[NoArgs EXCEPT !.api = "create_in_order", !.key = "/a b"]}
    \cup {[NoArgs EXCEPT !.api = "delete", !.key = "/foo", !.recursive = TRUE]}
    \cup {[NoArgs EXCEPT !.api = a, !.key = "/foo", !.current_value = Some("bar"),
                         !.current_modified_index = Some(1)] :
            a \in {"compare_and_swap", "compare_and_delete"}}
    \cup {[NoArgs EXCEPT !.api = a] : a \in AuthApis \cup MembersApis \cup StatsApis}

NextApi ==
    \/ \E endpoints \in ApiEndpointLists, http_ok \in BOOLEAN : Construct(endpoints, http_ok)
    \/ \E a \in AllApiArgs : Call(a)
    \/ Poll
    \/ Drop

SpecApi == Init /\ [][NextApi]_vars

\* ------------------------------------------------- dropping a call midway
MaxDropEndpoints == 2

DropEndpointLists == UNION {[1..n -> EndpointStrings] : n \in 0..MaxDropEndpoints}

DropApiArgs ==
    {[NoArgs EXCEPT !.api = "get", !.key = "/foo"], [NoArgs EXCEPT !.api = "enable"],
     [NoArgs EXCEPT !.api = "watch", !.key = "/foo", !.timeout = Some(1)]}

\* What the caller holds after dropping the call: nothing was delivered.
ResultDropped == [tag |-> "Dropped", data |-> "", from |-> None, errors |-> <<>>]

\* A drop that leaves the future running, as a detached task would.
DroppedDetached(f) == f

\* The future after the drop of a FirstOk: its current_future, its endpoint
\* iterator and its errors are dropped with it.
Dropped(f) == NoFuture

\* The caller drops an unresolved call; what the call has done so far stays
\* on record.
Cancel ==
    /\ fut.type # "none"
    /\ result.tag \in {"Unpolled", "NotReady"}
    /\ fut' = Dropped(fut)
    /\ delay' = "none"
    /\ result' = ResultDropped
    /\ UNCHANGED <<supplied, client, args, invoked, requests, outcomes, answered, peer, stream>>

NextDrop ==
    \/ \E endpoints \in DropEndpointLists, http_ok \in BOOLEAN : Construct(endpoints, http_ok)
    \/ \E a \in DropApiArgs : Call(a)
    \/ Poll
    \/ Elapse
    \/ TimerFail
    \/ Cancel

SpecDrop == Init /\ [][NextDrop]_vars

\* ------------------------------------------- a call polled to its resolution
MaxLiveEndpoints == 2

LiveEndpointLists == UNION {[1..n -> EndpointStrings] : n \in 0..MaxLiveEndpoints}

LiveApiArgs ==
    {[NoArgs EXCEPT !.api = "get", !.key = "/foo"], [NoArgs EXCEPT !.api = "set", !.key = "/a b"],
     [NoArgs EXCEPT !.api = "enable"]}

\* A poll in which a per-endpoint operation completes, with an item or with
\* an error.
Completes == Poll /\ Len(outcomes') > Len(outcomes)

NextLive ==
    \/ \E endpoints \in LiveEndpointLists, http_ok \in BOOLEAN : Construct(endpoints, http_ok)
    \/ \E a \in LiveApiArgs : Call(a)
    \/ Poll

\* The caller keeps polling the call it holds, and an operation that was
\* started does not stay incomplete for ever.
SpecLive == Init /\ [][NextLive]_vars /\ WF_vars(Poll) /\ WF_vars(Completes)

\* ------------------------------------------ a call polled after it resolved
MaxRepollEndpoints == 2

RepollEndpointLists == UNION {[1..n -> EndpointStrings] : n \in 0..MaxRepollEndpoints}

RepollApiArgs ==
    {[NoArgs EXCEPT !.api = "get", !.key = "/foo"], [NoArgs EXCEPT !.api = "set", !.key = "/a b"],
     [NoArgs EXCEPT !.api = "disable"]}

\* The caller polls a FirstOk that has already returned Ready or Err:
\* FirstOk::poll runs again on what the FirstOk holds.
PollAgain ==
    /\ fut.type = "FirstOk"
    /\ result.tag \in {"Ready", "Err"}
    /\ \E s \in TimeoutPoll(Bundle(fut, invoked, requests, outcomes, result), delay) :
          /\ fut' = s.fut
          /\ invoked' = s.invoked
          /\ requests' = s.requests
          /\ outcomes' = s.outcomes
          /\ answered' \in IF Len(s.outcomes) > Len(outcomes)
                           THEN Answers(fut.callback, s.outcomes[Len(s.outcomes)])
                           ELSE {answered}
          /\ result' = s.result
    /\ UNCHANGED <<supplied, client, args, delay, peer, stream>>

NextRepoll ==
    \/ \E endpoints \in RepollEndpointLists, http_ok \in BOOLEAN : Construct(endpoints, http_ok)
    \/ \E a \in RepollApiArgs : Call(a)
    \/ Poll
    \/ PollAgain

SpecRepoll == Init /\ [][NextRepoll]_vars

\* --------------------------------------------- the streams of stats calls
MaxStreamEndpoints == 2

StreamEndpointLists == UNION {[1..n -> EndpointStrings] : n \in 0..MaxStreamEndpoints}

StreamApis == {"self_stats", "store_stats", "versions"}

\* Ok(Async::Ready(None)): the stream has ended.
StreamEnd == [tag |-> "End", data |-> "", from |-> None, errors |-> <<>>]

\* stats::self_stats, stats::store_stats and Client::versions: one request
\* future per endpoint of the client, handed to futures_unordered, which
\* queues them all to be run in that order.
stats_stream(c) ==
    [futures |-> [i \in 1..Len(c.members) |-> [endpoint |-> c.members[i], stage |-> "created"]],
     queue |-> [i \in 1..Len(c.members) |-> i]]

StreamBundle(st, req, out, res) ==
    [stream |-> st, requests |-> req, outcomes |-> out, result |-> res]

StreamDone(st) == \A i \in 1..Len(st.futures) : st.futures[i].stage = "done"

\* An error after which the stream drops the futures that are left.
StreamOnErrorFused(s, i, r) ==
    {[s EXCEPT !.stream.futures = [j \in 1..Len(@) |-> [@[j] EXCEPT !.stage = "done"]],
               !.stream.queue = <<>>,
               !.outcomes = Append(@, Outcome(s.stream.futures[i].endpoint, r)),
               !.result = PollErr(<<r.error>>)]}

\* A future of the stream failed: the poll returns its error; the stream
\* keeps the other futures.
StreamOnError(s, i, r) ==
    {[s EXCEPT !.stream.futures[i].stage = "done",
               !.outcomes = Append(@, Outcome(s.stream.futures[i].endpoint, r)),
               !.result = PollErr(<<r.error>>)]}

\* Stream::poll of the futures_unordered: the queued futures are polled in
\* queue order up to the first that completes, whose item or error the poll
\* returns; a future that is not ready leaves the queue until it is woken.
\* With the queue empty the stream has ended if no future is left, and is
\* not ready otherwise.
RECURSIVE StreamPollQueue(_)
StreamPollQueue(s) ==
    IF s.stream.queue = <<>>
    THEN {[s EXCEPT !.result = IF StreamDone(s.stream) THEN StreamEnd ELSE PollNotReady]}
    ELSE LET i == Head(s.stream.queue)
             future == s.stream.futures[i]
             taken == [s EXCEPT !.stream.queue = Tail(@)]
         IN  UNION {
                 LET t == IF r.sent THEN [taken EXCEPT !.requests = Append(@, future.endpoint)]
                          ELSE taken
                 IN  CASE r.res = "NotReady" ->
                            StreamPollQueue([t EXCEPT !.stream.futures[i].stage = "sent"])
                       [] r.res = "Ready" ->
                            {[t EXCEPT !.stream.futures[i].stage = "done",
                                       !.outcomes = Append(@, Outcome(future.endpoint, r)),
                                       !.result = PollReady(r.data, future.endpoint)]}
                       [] OTHER -> StreamOnError(t, i, r)
                 : r \in OperationPoll(Callback(args.api, "GET", "", {}, <<>>),
                                       future)}

\* The caller calls self_stats, store_stats or versions and holds the stream.
StreamCall(api) ==
    /\ client.status = "ok"
    /\ fut.type = "none"
    /\ stream = NoStream
    /\ args' = [NoArgs EXCEPT !.api = api]
    /\ stream' = stats_stream(client)
    /\ invoked' = client.members
    /\ requests' = <<>>
    /\ outcomes' = <<>>
    /\ answered' = None
    /\ result' = Unpolled
    /\ UNCHANGED <<supplied, client, fut, delay, peer>>

\* The executor polls the stream; a stream that has ended is not polled
\* again.
StreamPoll ==
    /\ stream # NoStream
    /\ result.tag # "End"
    /\ \E s \in StreamPollQueue(StreamBundle(stream, requests, outcomes, result)) :
          /\ stream' = s.stream
          /\ requests' = s.requests
          /\ outcomes' = s.outcomes
          /\ result' = s.result
          /\ answered' \in IF Len(s.outcomes) > Len(outcomes)
                           THEN Answers(Callback(args.api, "GET", "", {}, <<>>),
                                        s.outcomes[Len(s.outcomes)])
                           ELSE {answered}
    /\ UNCHANGED <<supplied, client, args, fut, delay, invoked, peer>>

\* The transport wakes a future that was not ready: it is queued again.
Wake(i) ==
    /\ stream # NoStream
    /\ i \in 1..Len(stream.futures)
    /\ stream.futures[i].stage = "sent"
    /\ \A k \in 1..Len(stream.queue) : stream.queue[k] # i
    /\ stream' = [stream EXCEPT !.queue = Append(@, i)]
    /\ UNCHANGED <<supplied, client, args, fut, delay, invoked, requests, outcomes, answered,
                   result, peer>>

\* The caller drops the stream.
StreamDrop ==
    /\ stream # NoStream
    /\ args' = NoArgs
    /\ stream' = NoStream
    /\ invoked' = <<>>
    /\ requests' = <<>>
    /\ outcomes' = <<>>
    /\ answered' = None
    /\ result' = Unpolled
    /\ UNCHANGED <<supplied, client, fut, delay, peer>>

NextStream ==
    \/ \E endpoints \in StreamEndpointLists, http_ok \in BOOLEAN : Construct(endpoints, http_ok)
    \/ \E api \in StreamApis : StreamCall(api)
    \/ StreamPoll
    \/ \E i \in 1..MaxStreamEndpoints : Wake(i)
    \/ StreamDrop

SpecStream == Init /\ [][NextStream]_vars

\* ------------------------------------------- two calls on the same client
MaxConcEndpoints == 2

ConcEndpointLists == UNION {[1..n -> EndpointStrings] : n \in 0..MaxConcEndpoints}

\* The first call is a get, the second a create_role.
ConcApiArgs == {[NoArgs EXCEPT !.api = "get", !.key = "/foo"]}

PeerApiArgs == {[NoArgs EXCEPT !.api = "create_role"]}

\* A second call whose future works on the error vector of the first.
PeerFutureShared == [peer.fut EXCEPT !.errors = fut.errors]

\* The future of the second call: first_ok gave it its own endpoint iterator
\* and its own error vector.
PeerFuture == peer.fut

\* The caller makes a second call on the client while holding the first.
PeerCall(a) ==
    /\ client.status = "ok"
    /\ fut.type # "none"
    /\ peer.fut.type = "none"
    /\ peer' = [NoPeer EXCEPT !.args = a, !.fut = ApiCall(client, a)]
    /\ UNCHANGED <<supplied, client, args, fut, delay, invoked, requests, outcomes, answered,
                   result, stream>>

\* The executor polls the future of the second call.
PeerPoll ==
    /\ peer.fut.type # "none"
    /\ peer.result.tag \notin {"Ready", "Err"}
    /\ \E s \in FuturePoll(Bundle(PeerFuture, peer.invoked, peer.requests, peer.outcomes,
                                   peer.result)) :
          peer' = [peer EXCEPT !.fut = s.fut, !.invoked = s.invoked, !.requests = s.requests,
                               !.outcomes = s.outcomes, !.result = s.result]
    /\ UNCHANGED <<supplied, client, args, fut, delay, invoked, requests, outcomes, answered,
                   result, stream>>

\* The caller drops the future of the second call.
PeerDrop ==
    /\ peer.fut.type # "none"
    /\ peer' = NoPeer
    /\ UNCHANGED <<supplied, client, args, fut, delay, invoked, requests, outcomes, answered,
                   result, stream>>

NextConc ==
    \/ \E endpoints \in ConcEndpointLists, http_ok \in BOOLEAN : Construct(endpoints, http_ok)
    \/ \E a \in ConcApiArgs : Call(a)
    \/ Poll
    \/ Drop
    \/ \E a \in PeerApiArgs : PeerCall(a)
    \/ PeerPoll
    \/ PeerDrop

SpecConc == Init /\ [][NextConc]_vars

TypeOK ==
    /\ client.status \in {"unbuilt", "ok", "err"}
    /\ fut.type \in {"none", "FirstOk", "FutureResult", "Request"}
    /\ Len(fut.current_future) <= 1
    /\ result.tag \in {"Unpolled", "NotReady", "Ready", "Err", "Timeout", "End", "Dropped"}
    /\ delay \in {"none", "pending", "elapsed", "failed"}

\* ------------------------------------------------------------ properties
\* The number of endpoints of the client.
N == Len(client.members)

IsFirstOk == fut.type = "FirstOk"

IsPrefix(a, b) == Len(a) <= Len(b) /\ a = SubSeq(b, 1, Len(a))

\* The error list as it stands: the one returned once the call has failed,
\* the one the future holds before.
ErrorList == IF result.tag = "Err" THEN result.errors ELSE fut.errors

NoConditionsGiven ==
    /\ args.api \in {"compare_and_swap", "compare_and_delete"}
    /\ args.current_value = None
    /\ args.current_modified_index = None

\* C1 (short-circuit): when the operation has failed on endpoints 1..k-1 and
\* succeeds on endpoint k, the call has invoked the operation exactly k
\* times, on the first k endpoints, it is resolved with the item of endpoint
\* k and with no error, and the endpoints after k are never invoked.
C1_ShortCircuit ==
    IsFirstOk =>
        /\ \A k \in 1..Len(outcomes) :
              outcomes[k].res = "Ready" =>
                  /\ k = Len(outcomes)
                  /\ \A i \in 1..(k - 1) : outcomes[i].res = "Err"
                  /\ Len(invoked) = k
                  /\ invoked = SubSeq(client.members, 1, k)
                  /\ result.tag = "Ready"
                  /\ result.data = outcomes[k].data
                  /\ result.from = Some(client.members[k])
                  /\ result.errors = <<>>
        /\ result.tag = "Ready" =>
              /\ Len(outcomes) \in 1..N
              /\ outcomes[Len(outcomes)].res = "Ready"

\* Endpoint 2 of 3 succeeded after endpoint 1 failed; endpoint 3 is untried.
C1_Witness ==
    /\ IsFirstOk
    /\ N = 3
    /\ result.tag = "Ready"
    /\ Len(outcomes) = 2
    /\ Len(fut.endpoints) = 1

\* C2 (exhaustion): when the operation has failed on every one of the n
\* endpoints, the call has invoked the operation exactly n times and is
\* resolved with an error list of length exactly n; and it fails no earlier.
C2_Exhaustion ==
    IsFirstOk =>
        /\ (Len(outcomes) = N /\ \A i \in 1..N : outcomes[i].res = "Err") =>
              /\ result.tag = "Err"
              /\ Len(invoked) = N
              /\ Len(result.errors) = N
        /\ result.tag = "Err" =>
              /\ Len(invoked) = N
              /\ Len(outcomes) = N
              /\ Len(result.errors) = N
              /\ \A i \in 1..N : outcomes[i].res = "Err"

\* All three endpoints failed.
C2_Witness ==
    /\ IsFirstOk
    /\ N = 3
    /\ result.tag = "Err"
    /\ Len(result.errors) = 3

\* C3 (order preservation): the client's endpoints are the supplied ones in
\* the supplied order, the operation is invoked on them in that order, and
\* the i-th error of the list is the error of the i-th supplied endpoint.
C3_OrderPreservation ==
    IsFirstOk =>
        /\ N = Len(supplied)
        /\ \A i \in 1..N : client.members[i] = ParseUri(supplied[i])
        /\ IsPrefix(invoked, client.members)
        /\ \A i \in 1..Len(outcomes) : outcomes[i].endpoint = ParseUri(supplied[i])
        /\ result.tag = "Err" =>
              /\ Len(result.errors) = Len(outcomes)
              /\ \A i \in 1..Len(result.errors) : result.errors[i] = outcomes[i].error

\* Three distinct failures on a list whose first two endpoints differ.
C3_Witness ==
    /\ IsFirstOk
    /\ N = 3
    /\ supplied[1] # supplied[2]
    /\ result.tag = "Err"
    /\ result.errors[1] # result.errors[2]
    /\ result.errors[2] # result.errors[3]

\* C4 (no retry): every invocation takes a fresh position from the cursor,
\* so the positions invoked are 1..Len(invoked), each once, the positions
\* left are the ones after them, and a position whose operation has failed
\* is neither in flight nor left.
C4_NoRetry ==
    IsFirstOk =>
        /\ Len(invoked) + Len(fut.endpoints) = N
        /\ fut.endpoints = SubSeq(client.members, Len(invoked) + 1, N)
        /\ Len(outcomes) <= Len(invoked)
        /\ fut.current_future # None => Len(invoked) > Len(outcomes)

\* The first endpoint failed and the same address, listed again as the
\* second endpoint, is now in flight.
C4_Witness ==
    /\ IsFirstOk
    /\ N >= 2
    /\ client.members[1] = client.members[2]
    /\ Len(outcomes) = 1
    /\ outcomes[1].res = "Err"
    /\ fut.current_future # None
    /\ Len(invoked) = 2

\* C5 (single flight): the operations started and not completed are at most
\* one, exactly the one held as current_future, and the operation of
\* endpoint i+1 is started only once the operation of endpoint i has
\* completed with a failure.
C5_SingleFlight ==
    IsFirstOk =>
        /\ Len(invoked) - Len(outcomes) \in {0, 1}
        /\ (~Resolved /\ result.tag # "Unpolled") =>
              (Len(invoked) - Len(outcomes) = 1 <=> fut.current_future # None)
        /\ fut.current_future # None =>
              fut.current_future[1].endpoint = invoked[Len(invoked)]
        /\ \A i \in 2..Len(invoked) :
              /\ Len(outcomes) >= i - 1
              /\ outcomes[i - 1].res = "Err"

\* The third operation is in flight after two failures.
C5_Witness ==
    /\ IsFirstOk
    /\ Len(invoked) = 3
    /\ Len(outcomes) = 2
    /\ result.tag = "NotReady"
    /\ fut.current_future # None

\* C6 (construction guard): constructing a client from an empty endpoint list
\* fails with NoEndpoints, yields no client, and neither a request nor a
\* failover call follows from it.
C6_ConstructionGuard ==
    (client.status # "unbuilt" /\ supplied = <<>>) =>
        /\ client.status = "err"
        /\ client.error = ErrNoEndpoints
        /\ client.members = <<>>
        /\ fut.type = "none"
        /\ invoked = <<>>
        /\ requests = <<>>

\* A construction from the empty list has taken place.
C6_Witness ==
    /\ supplied = <<>>
    /\ client.status = "err"

\* C7 (non-empty failure): no call on a client resolves with an empty error
\* list.
C7_NonEmptyErrors ==
    (client.status = "ok" /\ result.tag = "Err") => result.errors # <<>>

\* A failover call on a single-endpoint client failed.
C7_Witness ==
    /\ IsFirstOk
    /\ N = 1
    /\ result.tag = "Err"

\* C8 as stated: for every key-value call that fails, the length of the
\* error list equals the number of endpoints the operation was attempted on.
C8_Original ==
    (args.api \in KvApis /\ result.tag = "Err") =>
        Len(result.errors) = Len(invoked)

\* C8 as amended: for every key-value call that fails, other than a compare
\* call given no conditions, the length of the error list equals the number
\* of endpoints the operation was attempted on, and it equals the endpoint
\* count only if every endpoint was tried.
C8_ErrorsPerAttempt ==
    (args.api \in KvApis /\ result.tag = "Err" /\ ~NoConditionsGiven) =>
        /\ Len(result.errors) = Len(invoked)
        /\ Len(result.errors) = N => invoked = client.members

\* A set on two endpoints failed on both.
C8_Witness ==
    /\ args.api = "set"
    /\ N = 2
    /\ result.tag = "Err"
    /\ Len(invoked) = 2

\* C9 (conditions required): a compare call given neither a value nor a
\* modified index returns an already failed future: polled, it yields the
\* single error InvalidConditions; no endpoint is invoked or contacted.
C9_ConditionsRequired ==
    (fut.type # "none" /\ NoConditionsGiven) =>
        /\ fut.type = "FutureResult"
        /\ invoked = <<>>
        /\ requests = <<>>
        /\ result.tag \in {"Unpolled", "Err"}
        /\ result.tag = "Err" => result.errors = <<ErrInvalidConditions>>

\* A compare_and_swap without conditions was polled on a three-endpoint
\* client.
C9_Witness ==
    /\ args.api = "compare_and_swap"
    /\ NoConditionsGiven
    /\ N = 3
    /\ result.tag = "Err"

RecoveredKinds == {"Api", "Http", "InvalidUrl", "InvalidUri", "Serialization", "UnexpectedStatus"}

\* C10 (recovery): a per-endpoint error of any kind is appended to the error
\* list at the endpoint's position and, if an endpoint is left, the next
\* endpoint is attempted; the call fails only with every endpoint tried.
C10_ErrorsRecovered ==
    IsFirstOk =>
        \A i \in 1..Len(outcomes) :
            outcomes[i].res = "Err" =>
                /\ outcomes[i].error.kind \in RecoveredKinds
                /\ Len(ErrorList) >= i
                /\ ErrorList[i] = outcomes[i].error
                /\ i < N => (Len(invoked) >= i + 1 /\ invoked[i + 1] = client.members[i + 1])
                /\ result.tag = "Err" => Len(outcomes) = N

\* An Api error of the first endpoint was followed by the attempt on the
\* second.
C10_Witness ==
    /\ IsFirstOk
    /\ Len(outcomes) = 1
    /\ outcomes[1].error = ErrApi
    /\ Len(invoked) = 2
    /\ fut.errors = <<ErrApi>>
    /\ fut.current_future # None

\* The statuses an operation takes for success.
SuccessStatuses(op) ==
    CASE op = "raw_set" -> {200, 201}
      [] op = "members_add" -> {201}
      [] op \in {"members_delete", "members_update"} -> {204}
      [] op \in {"enable", "disable"} -> {200, 409}
      [] OTHER -> {200}

\* The type an operation decodes a success body into.
PayloadType(op) ==
    CASE op \in {"raw_get", "raw_delete", "raw_set"} -> "KeyValueInfo"
      [] op = "members_list" -> "ListResponse"
      [] op \in {"create_role", "get_role", "update_role"} -> "Role"
      [] op \in {"create_user", "get_user", "update_user"} -> "User"
      [] op = "get_roles" -> "Roles"
      [] op = "get_users" -> "Users"
      [] op = "status" -> "AuthStatus"
      [] OTHER -> "none"

KvOps == {"raw_get", "raw_delete", "raw_set"}

MembersOps == {"members_add", "members_delete", "members_list", "members_update"}

\* The operation completed last was answered with a response.
LastAnswered == IsFirstOk /\ outcomes # <<>> /\ answered # None

LastOutcome == outcomes[Len(outcomes)]

\* C11 as stated: for every failover-based call, key-value, members and auth
\* alike, an attempt whose response status is outside the success set yields
\* Api when the body decodes as the error payload, Serialization when not.
C11_Original ==
    (LastAnswered /\ answered[1].status \notin SuccessStatuses(fut.callback.op)) =>
        /\ LastOutcome.res = "Err"
        /\ LastOutcome.error =
              IF Decodes(answered[1].body, "ApiError") THEN ErrApi ELSE ErrSerialization

\* C11 as amended: for every key-value and members call and for
\* auth::status, an attempt whose response status is outside the success set
\* yields Api when the body decodes as the error payload, Serialization when
\* not; any other auth call yields UnexpectedStatus with the status,
\* whatever the body.
C11_ErrorStatusClassified ==
    (LastAnswered /\ answered[1].status \notin SuccessStatuses(fut.callback.op)) =>
        /\ LastOutcome.res = "Err"
        /\ LastOutcome.error =
              IF fut.callback.op \in KvOps \cup MembersOps \cup {"status"}
              THEN IF Decodes(answered[1].body, "ApiError") THEN ErrApi ELSE ErrSerialization
              ELSE ErrUnexpectedStatus(answered[1].status)

\* A get was answered 404 with an error payload, which gave an Api error.
C11_Witness ==
    /\ LastAnswered
    /\ fut.callback.op = "raw_get"
    /\ answered = Some([status |-> 404, body |-> "apierror"])
    /\ LastOutcome.error = ErrApi

\* C12 (success decoding): an attempt answered with a success status, for an
\* operation with a payload type, succeeds exactly when the body decodes
\* into that type; otherwise it yields Serialization, which is recorded as
\* the endpoint's failure, and the next endpoint, if any, is attempted.
C12_SuccessDecoded ==
    (/\ LastAnswered
     /\ answered[1].status \in SuccessStatuses(fut.callback.op)
     /\ PayloadType(fut.callback.op) # "none") =>
        /\ LastOutcome.res = "Ready" <=> Decodes(answered[1].body, PayloadType(fut.callback.op))
        /\ LastOutcome.res = "Ready" => result.tag = "Ready"
        /\ LastOutcome.res # "Ready" =>
              /\ LastOutcome.error = ErrSerialization
              /\ ErrorList[Len(outcomes)] = ErrSerialization
              /\ Len(outcomes) < N => Len(invoked) = Len(outcomes) + 1
              /\ Len(outcomes) = N => result.tag = "Err"

\* A members list was answered 200 with an undecodable body by the first
\* endpoint, and the second endpoint is in flight.
C12_Witness ==
    /\ LastAnswered
    /\ fut.callback.op = "members_list"
    /\ Len(outcomes) = 1
    /\ answered = Some([status |-> 200, body |-> "garbage"])
    /\ Len(invoked) = 2
    /\ fut.current_future # None

IsWatch == args.api = "watch" /\ IsFirstOk

\* The failover call has resolved: an endpoint succeeded or all have failed.
WorkResolved ==
    \/ outcomes # <<>> /\ LastOutcome.res = "Ready"
    \/ Len(outcomes) = N

\* A step that polls the future.
PollStep == fut.type # "none" /\ fut'.type # "none" /\ delay' = delay

\* The delay of the Timeout yields no more waiting: its duration has
\* elapsed or its timer has failed.
DelayOver == delay \in {"elapsed", "failed"}

\* C13 as stated: once the duration given to watch has elapsed with the
\* failover call unresolved, the watch results in WatchError::Timeout, none
\* of the per-endpoint errors is surfaced, and no further endpoint is
\* attempted.
C13_Original ==
    /\ [][(IsWatch /\ delay = "elapsed" /\ ~WorkResolved /\ PollStep) =>
              result' = WatchErrorTimeout]_vars
    /\ [](result.tag = "Timeout" => result.errors = <<>>)
    /\ [][result.tag = "Timeout" =>
              /\ Len(invoked') <= Len(invoked)
              /\ Len(requests') <= Len(requests)]_vars

\* C13 as amended: a poll made once the duration has elapsed (or the timer
\* has failed) polls the failover call first, which may attempt further
\* endpoints; if that resolves the call, the watch returns its outcome, the
\* item or all the per-endpoint errors in order; if it leaves the call
\* unresolved, the watch fails with WatchError::Timeout.  A timeout is
\* returned in no other case, carries none of the per-endpoint errors
\* accumulated so far, and after it no further endpoint is attempted.
C13_WatchTimeout ==
    /\ [][(IsWatch /\ DelayOver /\ PollStep) =>
              IF ~WorkResolved'
              THEN result' = WatchErrorTimeout
              ELSE IF outcomes'[Len(outcomes')].res = "Ready"
                   THEN result' = PollReady(outcomes'[Len(outcomes')].data,
                                            outcomes'[Len(outcomes')].endpoint)
                   ELSE result' = PollErr([i \in 1..N |-> outcomes'[i].error])]_vars
    /\ [](result.tag = "Timeout" =>
              /\ IsWatch
              /\ DelayOver
              /\ ~WorkResolved
              /\ result.errors = <<>>
              /\ result.data = "")
    /\ [][result.tag = "Timeout" =>
              /\ Len(invoked') <= Len(invoked)
              /\ Len(requests') <= Len(requests)]_vars

\* The watch timed out with the first endpoint's error accumulated, the
\* second endpoint in flight and the third untried.
C13_Witness ==
    /\ IsWatch
    /\ N = 3
    /\ result = WatchErrorTimeout
    /\ Len(fut.errors) = 1
    /\ fut.current_future # None
    /\ Len(invoked) = 2
    /\ Len(fut.endpoints) = 1

\* The duration had elapsed when a poll of the watch tried both endpoints,
\* which failed at once: the watch failed with their two errors, not with a
\* timeout.
C13_WitnessLate ==
    /\ IsWatch
    /\ N = 2
    /\ delay = "elapsed"
    /\ result.tag = "Err"
    /\ Len(result.errors) = 2
    /\ Len(requests) = 2

\* The timer failed before the duration elapsed, and the watch timed out
\* with its first endpoint in flight.
C13_WitnessTimer ==
    /\ IsWatch
    /\ delay = "failed"
    /\ result = WatchErrorTimeout
    /\ fut.current_future # None

\* C14 (watch outcome): when the failover call of a watch resolves, the
\* watch resolves with exactly its outcome, the item of the endpoint that
\* succeeded or WatchError::Other carrying the errors of all endpoints in
\* order, with or without a duration; it never reports a timeout then.
C14_WatchOutcome ==
    IsWatch =>
        /\ (outcomes # <<>> /\ LastOutcome.res = "Ready") =>
              result = PollReady(LastOutcome.data, LastOutcome.endpoint)
        /\ (Len(outcomes) = N /\ \A i \in 1..N : outcomes[i].res = "Err") =>
              result = PollErr([i \in 1..N |-> outcomes[i].error])
        /\ WorkResolved => result.tag # "Timeout"

\* A watch given a duration failed on all three endpoints before the
\* duration lapsed.
C14_Witness ==
    /\ IsWatch
    /\ N = 3
    /\ delay = "pending"
    /\ result.tag = "Err"
    /\ Len(result.errors) = 3

\* A call is accounted for by its own attempts alone: it has invoked a
\* prefix of the client's endpoints, one more than have completed at most,
\* its errors are those of its own failed attempts in order, and its result
\* is that of its own last attempt.
CallOwn(f, inv, out, res) ==
    LET errs == IF res.tag = "Err" THEN res.errors ELSE f.errors
        failed == IF out # <<>> /\ out[Len(out)].res = "Ready" THEN Len(out) - 1 ELSE Len(out)
    IN  /\ IsPrefix(inv, client.members)
        /\ Len(inv) \in {Len(out), Len(out) + 1}
        /\ \A i \in 1..Len(out) : out[i].endpoint = client.members[i]
        /\ \A i \in 1..failed : out[i].res = "Err"
        /\ errs = [i \in 1..failed |-> out[i].error]
        /\ res.tag = "Ready" =>
              /\ failed = Len(out) - 1
              /\ res = PollReady(out[Len(out)].data, out[Len(out)].endpoint)
        /\ res.tag = "Err" => failed = N
        /\ res.tag \in {"Unpolled", "NotReady"} => (failed = Len(out) /\ failed < N)

\* C15 (isolation): of two calls in progress on the same client, each
\* resolves from its own attempts alone, no error of one appears in the list
\* of the other, a step of one leaves the other as it was, and the client's
\* endpoint list never changes.
C15_Isolation ==
    /\ [](fut.type = "FirstOk" => CallOwn(fut, invoked, outcomes, result))
    /\ [](peer.fut.type = "FirstOk" =>
              CallOwn(peer.fut, peer.invoked, peer.outcomes, peer.result))
    /\ [][client.status = "ok" => client' = client]_vars
    /\ [][peer' # peer => UNCHANGED <<fut, invoked, requests, outcomes, result>>]_vars

\* The first call got an item from the second endpoint after an Api error of
\* the first, while the second call failed on both with other errors.
C15_Witness ==
    /\ N = 2
    /\ result.tag = "Ready"
    /\ fut.errors = <<ErrApi>>
    /\ peer.result.tag = "Err"
    /\ peer.result.errors = <<ErrHttp, ErrUnexpectedStatus(404)>>

IsLeaderStats == args.api = "leader_stats"

\* C16 as stated: leader_stats tries the next endpoint when one fails, and
\* fails only after all endpoints have failed, with the list of their errors
\* in order.
C16_Original ==
    (IsLeaderStats /\ result.tag = "Err") =>
        /\ Len(outcomes) = N
        /\ result.errors = [i \in 1..N |-> outcomes[i].error]

\* What leader_stats does: it makes one request, to the first endpoint of
\* the client; the call resolves with the result of that request, failing
\* with its single error as soon as it fails, and no other endpoint is ever
\* tried.
C16_LeaderStatsFirstEndpoint ==
    IsLeaderStats =>
        /\ IsPrefix(invoked, <<client.members[1]>>)
        /\ IsPrefix(requests, <<client.members[1]>>)
        /\ Len(outcomes) <= 1
        /\ outcomes = <<>> => result.tag \in {"Unpolled", "NotReady"}
        /\ (outcomes # <<>> /\ outcomes[1].res = "Err") => result = PollErr(<<outcomes[1].error>>)
        /\ (outcomes # <<>> /\ outcomes[1].res = "Ready") =>
              result = PollReady(outcomes[1].data, client.members[1])

\* On a client of three endpoints, the second unlike the first, leader_stats
\* failed with the error of the first endpoint.
C16_Witness ==
    /\ IsLeaderStats
    /\ N = 3
    /\ client.members[2] # client.members[1]
    /\ result.tag = "Err"
    /\ requests = <<client.members[1]>>

\* The pairs of the request body a call sends.
SentOptions == {fut.callback.http_options[i] : i \in 1..Len(fut.callback.http_options)}

\* C17 as stated: the requests of kv::create carry prevExist=false, which is
\* what makes every endpoint refuse an existing key.
C17_CreateSendsPrevExist ==
    (args.api = "create" /\ requests # <<>>) => <<"prevExist", "false">> \in SentOptions

IsStream == stream # NoStream

\* How many times e occurs in seq.
Count(seq, e) == Cardinality({i \in 1..Len(seq) : seq[i] = e})

\* C18 (stats streams): self_stats and store_stats make one future per
\* endpoint; each future hands at most one request to the http client,
\* the failure of one leaves the others in the stream, and a stream polled
\* to its end has made exactly one request per endpoint, whatever each
\* request came to; when all n succeeded it has yielded n items, then ended.
C18_StatsEveryEndpoint ==
    IsStream =>
        /\ invoked = client.members
        /\ Len(stream.futures) = N
        /\ Len(requests) = Cardinality({i \in 1..N : stream.futures[i].stage # "created"})
        /\ Len(outcomes) = Cardinality({i \in 1..N : stream.futures[i].stage = "done"})
        /\ \A i \in 1..N : Count(requests, client.members[i]) <= Count(client.members, client.members[i])
        /\ result.tag = "End" =>
              /\ Len(outcomes) = N
              /\ \A i \in 1..N :
                    /\ Count(requests, client.members[i]) = Count(client.members, client.members[i])
                    /\ Count([k \in 1..N |-> outcomes[k].endpoint], client.members[i])
                          = Count(client.members, client.members[i])
        /\ (Len(outcomes) = N /\ \A k \in 1..N : outcomes[k].res = "Ready") =>
              result.tag \in {"Ready", "End"}

\* The stream over two unlike endpoints has ended after the second endpoint
\* failed first and the first then yielded its item.
C18_Witness ==
    /\ IsStream
    /\ N = 2
    /\ client.members[1] # client.members[2]
    /\ result.tag = "End"
    /\ outcomes[1].endpoint = client.members[2]
    /\ outcomes[1].res = "Err"
    /\ outcomes[2].res = "Ready"

\* The stream over two endpoints has ended after both yielded an item.
C18_WitnessAllOk ==
    /\ IsStream
    /\ N = 2
    /\ result.tag = "End"
    /\ \A k \in 1..2 : outcomes[k].res = "Ready"

\* C19 (unparseable endpoint): constructing a client from a list with an
\* entry that does not parse fails with the parser's error, whatever the
\* other entries are; it yields no client, and neither a request nor a call
\* follows from it.
C19_UnparseableEndpoint ==
    (client.status # "unbuilt" /\ \E i \in 1..Len(supplied) : ~ParseUri(supplied[i]).ok) =>
        /\ client.status = "err"
        /\ client.error = ErrInvalidUri
        /\ client.members = <<>>
        /\ fut.type = "none"
        /\ stream = NoStream
        /\ invoked = <<>>
        /\ requests = <<>>

\* A construction from a list whose second entry alone does not parse has
\* failed.
C19_Witness ==
    /\ supplied = <<"http://a", "not a uri", "http://b">>
    /\ client.status = "err"
    /\ client.error = ErrInvalidUri

\* C20 (no built-in timeout): while the operation started on an endpoint
\* has not completed, the call is unresolved with that operation in flight,
\* and a poll that does not see it complete returns NotReady, starts no
\* other endpoint and leaves the future as it was; only the Timeout that
\* watch puts around the call may end it.
C20_NoBuiltInTimeout ==
    /\ []((IsFirstOk /\ Len(invoked) > Len(outcomes)) =>
              /\ fut.current_future # None
              /\ fut.current_future[1].endpoint = invoked[Len(invoked)]
              /\ result.tag \in {"NotReady", "Timeout"}
              /\ delay = "none" => result.tag = "NotReady")
    /\ [][(/\ IsFirstOk
           /\ fut.current_future # None
           /\ PollStep
           /\ Len(outcomes') = Len(outcomes)) =>
              /\ invoked' = invoked
              /\ fut'.endpoints = fut.endpoints
              /\ fut'.errors = fut.errors
              /\ fut'.current_future # None
              /\ fut'.current_future[1].endpoint = fut.current_future[1].endpoint]_vars

\* A get has been polled with its second endpoint in flight and not ready;
\* the third endpoint has not been started.
C20_Witness ==
    /\ IsFirstOk
    /\ args.api = "get"
    /\ N = 3
    /\ result.tag = "NotReady"
    /\ Len(outcomes) = 1
    /\ Len(invoked) = 2
    /\ fut.current_future # None
    /\ fut.current_future[1].stage = "sent"
    /\ Len(fut.endpoints) = 1

\* C21 (cancellation by drop): once the caller has dropped an unresolved
\* call, the operation in flight is gone with the future, no operation is
\* started and no request made on any endpoint from then on, and no item and
\* no error list is delivered.
C21_DropCancels ==
    /\ [](result.tag = "Dropped" =>
              /\ fut = NoFuture
              /\ delay = "none"
              /\ Len(invoked) <= N
              /\ \A i \in 1..Len(outcomes) : outcomes[i].res = "Err")
    /\ [][result.tag = "Dropped" =>
              \/ UNCHANGED <<invoked, requests, outcomes, result>>
              \/ /\ fut' = ApiCall(client, args')
                 /\ invoked' = <<>>
                 /\ requests' = <<>>
                 /\ outcomes' = <<>>
                 /\ result' = Unpolled]_vars

\* A get was dropped with its first endpoint in flight and the second not
\* started.
C21_Witness ==
    /\ args.api = "get"
    /\ N = 2
    /\ result.tag = "Dropped"
    /\ Len(invoked) = 1
    /\ requests = invoked
    /\ outcomes = <<>>

\* The endpoints of the invocations that handed a request to the http
\* client: every invocation but those whose request target could not be
\* built.
RECURSIVE RequestsOf(_, _)
RequestsOf(inv, out) ==
    IF inv = <<>> THEN <<>>
    ELSE LET i == Len(inv)
             before == RequestsOf(SubSeq(inv, 1, i - 1), out)
         IN  IF i <= Len(out) /\ out[i].error.kind \in {"InvalidUrl", "InvalidUri"}
             THEN before
             ELSE Append(before, inv[i])

\* C22 as stated: every invocation of the per-endpoint operation has made
\* exactly one request, so the requests are the invocations.
C22_Original == IsFirstOk => requests = invoked

\* C22 (requests per invocation): an invocation makes at most one request,
\* to its own endpoint: exactly one when its request target builds, and none
\* when the target fails to build (InvalidUrl or InvalidUri); a call that
\* attempted m endpoints has made m requests less the targets that failed.
C22_RequestPerInvocation ==
    IsFirstOk =>
        /\ requests = RequestsOf(invoked, outcomes)
        /\ Len(requests) <= Len(invoked)
        /\ \A i \in 1..Len(outcomes) :
               outcomes[i].error.kind \notin {"InvalidUrl", "InvalidUri"} =>
                   Count(requests, outcomes[i].endpoint) >= 1

\* Two endpoints were attempted; the target of the first did not build, so
\* one request was made, to the second.
C22_Witness ==
    /\ IsFirstOk
    /\ Len(invoked) = 2
    /\ Len(outcomes) = 2
    /\ outcomes[1].error.kind = "InvalidUrl"
    /\ outcomes[2].res = "Ready"
    /\ requests = <<invoked[2]>>

\* C23 (URL failures are ordinary failures): when the request target of
\* endpoint i does not build, the InvalidUrl or InvalidUri error is the i-th
\* element of the error list, and the same poll goes on to invoke the
\* operation on endpoint i+1; the call fails only when i was the last.
C23_UrlFailureOrdinary ==
    IsFirstOk =>
        \A i \in 1..Len(outcomes) :
            outcomes[i].error.kind \in {"InvalidUrl", "InvalidUri"} =>
                /\ outcomes[i].endpoint = client.members[i]
                /\ i <= Len(ErrorList)
                /\ ErrorList[i] = outcomes[i].error
                /\ i < N => (Len(invoked) > i /\ invoked[i + 1] = client.members[i + 1])
                /\ (i = N /\ Len(outcomes) = N) => (result.tag = "Err" /\ Len(result.errors) = N)

\* The target of the first endpoint did not build, and the operation on the
\* second is in flight.
C23_Witness ==
    /\ IsFirstOk
    /\ N = 2
    /\ Len(outcomes) = 1
    /\ outcomes[1].error = ErrInvalidUrl
    /\ fut.errors = <<ErrInvalidUrl>>
    /\ fut.current_future # None
    /\ result.tag = "NotReady"

\* A set whose key makes every target fail has failed with one InvalidUri
\* per endpoint.
C23_WitnessAll ==
    /\ args.api = "set"
    /\ N = 2
    /\ result.tag = "Err"
    /\ result.errors = <<ErrInvalidUri, ErrInvalidUri>>
    /\ requests = <<>>

\* C24 (termination): a call that is polled on, and whose started
\* operations all complete, resolves; it never starts more operations than
\* the client has endpoints.
C24_Terminates ==
    /\ [](IsFirstOk => Len(invoked) <= N)
    /\ (IsFirstOk ~> (IsFirstOk /\ result.tag \in {"Ready", "Err"}))

\* A call on two endpoints resolved after starting both operations.
C24_Witness ==
    /\ IsFirstOk
    /\ N = 2
    /\ Len(invoked) = 2
    /\ outcomes[1].error = ErrHttp
    /\ result.tag \in {"Ready", "Err"}

\* The greatest element of a set of numbers.
SetMax(S) == CHOOSE x \in S : \A y \in S : y <= x

\* C25 as stated: the nesting of poll calls within one poll has a bound that
\* does not depend on the number of endpoints, so a poll of a call over its
\* whole endpoint list nests no deeper than a poll of the same call over its
\* first endpoint alone.
C25_BoundedNesting ==
    (IsFirstOk /\ ~Resolved /\ N >= 1) =>
        SetMax(pollNesting(fut)) <= SetMax(pollNesting(first_ok(<<client.members[1]>>, fut.callback)))

\* What the code does: a first poll over n endpoints that all fail at once
\* nests two calls of poll per endpoint, and one more to find the iterator
\* exhausted.
C25_NestingPerEndpoint ==
    (IsFirstOk /\ result.tag = "Unpolled") => SetMax(pollNesting(fut)) = N + N + 1

\* C26 (frame of a NotReady poll): a poll that finds the operation in
\* flight not complete returns NotReady and changes nothing: the FirstOk is
\* as it was (same current future, same endpoints left, same errors), no
\* operation is started, no request is made and no outcome is recorded.
C26_NotReadyFrame ==
    [][(/\ IsFirstOk
        /\ fut.current_future # None
        /\ PollStep
        /\ outcomes' = outcomes) =>
           /\ fut' = fut
           /\ invoked' = invoked
           /\ requests' = requests
           /\ answered' = answered
           /\ client' = client
           /\ result'.tag = (IF delay \in {"elapsed", "failed"} THEN "Timeout" ELSE "NotReady")
           /\ result'.errors = <<>>]_vars

\* A create has been polled twice with its first endpoint in flight: one
\* request was made, nothing failed, and the second endpoint is still in
\* the iterator.
C26_Witness ==
    /\ args.api = "create"
    /\ N = 2
    /\ result.tag = "NotReady"
    /\ fut.current_future # None
    /\ fut.current_future[1].stage = "sent"
    /\ fut.errors = <<>>
    /\ Len(fut.endpoints) = 1
    /\ Len(requests) = 1

\* C27 (auth::enable and auth::disable): a response of status 200 gives the
\* item Changed and one of status 409 the item Unchanged, and either ends
\* the call at once with no later endpoint invoked; any other status gives
\* UnexpectedStatus(status), after which the next endpoint is invoked, or
\* the call fails when none is left.
C27_AuthChange ==
    (LastAnswered /\ args.api \in {"enable", "disable"}) =>
        LET status == answered[1].status
        IN  IF status \in {200, 409}
            THEN /\ LastOutcome.res = "Ready"
                 /\ LastOutcome.data = (IF status = 200 THEN "Changed" ELSE "Unchanged")
                 /\ result = PollReady(LastOutcome.data, LastOutcome.endpoint)
                 /\ Len(invoked) = Len(outcomes)
                 /\ requests = invoked
            ELSE /\ LastOutcome.res = "Err"
                 /\ LastOutcome.error = ErrUnexpectedStatus(status)
                 /\ ErrorList[Len(outcomes)] = ErrUnexpectedStatus(status)
                 /\ IF Len(outcomes) < N
                    THEN Len(invoked) = Len(outcomes) + 1
                    ELSE result.tag = "Err"

\* disable was answered 409 by the first of two endpoints: Unchanged, and
\* the second endpoint was not contacted.
C27_Witness ==
    /\ args.api = "disable"
    /\ N = 2
    /\ answered = Some([status |-> 409, body |-> "garbage"])
    /\ result.tag = "Ready"
    /\ result.data = "Unchanged"
    /\ Len(invoked) = 1

\* enable was answered 404 by the first endpoint and 200 by the second.
C27_WitnessNext ==
    /\ args.api = "enable"
    /\ Len(outcomes) = 2
    /\ outcomes[1].error = ErrUnexpectedStatus(404)
    /\ answered # None
    /\ answered[1].status = 200
    /\ result.data = "Changed"

\* C28 (laziness): a failover call that was created and not polled has
\* invoked the operation on no endpoint and made no request: it holds no
\* current future and all the endpoints of the client; the operation on the
\* first endpoint is invoked by the first poll.
C28_Lazy ==
    /\ []((IsFirstOk /\ result.tag = "Unpolled") =>
              /\ invoked = <<>>
              /\ requests = <<>>
              /\ outcomes = <<>>
              /\ fut.current_future = None
              /\ fut.endpoints = client.members
              /\ fut.errors = <<>>)
    /\ [][(IsFirstOk /\ result.tag = "Unpolled" /\ PollStep /\ result' # result) =>
              /\ invoked' # <<>>
              /\ invoked'[1] = client.members[1]
              /\ fut'.endpoints = SubSeq(client.members, Len(invoked') + 1, N)]_vars

\* A set on two endpoints has been created and not polled.
C28_Witness ==
    /\ args.api = "set"
    /\ N = 2
    /\ IsFirstOk
    /\ result.tag = "Unpolled"
    /\ invoked = <<>>
    /\ Len(fut.endpoints) = 2

\* C29 (accounting): while a failover call over n endpoints is unresolved,
\* the errors recorded, the operation in flight (one or none) and the
\* endpoints left in the iterator add up to n; the errors recorded are those
\* of endpoints 1..Len(errors), in that order, and the endpoints left are the
\* last of the list; the error list never holds more than n errors.
C29_Accounting ==
    IsFirstOk =>
        /\ Len(ErrorList) <= N
        /\ ~Resolved =>
              /\ Len(fut.errors) + (IF fut.current_future # None THEN 1 ELSE 0)
                     + Len(fut.endpoints) = N
              /\ Len(fut.errors) = Len(outcomes)
              /\ \A i \in 1..Len(fut.errors) :
                     /\ outcomes[i].res = "Err"
                     /\ outcomes[i].endpoint = client.members[i]
                     /\ fut.errors[i] = outcomes[i].error
              /\ fut.endpoints = SubSeq(client.members, N - Len(fut.endpoints) + 1, N)

\* A call over three endpoints with one error recorded, one operation in
\* flight and one endpoint left.
C29_Witness ==
    /\ IsFirstOk
    /\ ~Resolved
    /\ N = 3
    /\ Len(fut.errors) = 1
    /\ fut.current_future # None
    /\ Len(fut.endpoints) = 1

\* C30 (not fused): a FirstOk polled again after it returned Ready from
\* endpoint k < n invokes the operation on endpoint k+1; polled again after
\* it returned Err, it invokes nothing, makes no request and returns Err
\* with an empty list.
C30_NotFused ==
    /\ [][(IsFirstOk /\ PollStep /\ result.tag = "Ready" /\ Len(invoked) < N /\ result' # result) =>
              /\ Len(invoked') > Len(invoked)
              /\ invoked'[Len(invoked) + 1] = client.members[Len(invoked) + 1]
              /\ Len(fut'.errors) + (IF result'.tag = "Err" THEN Len(result'.errors) ELSE 0)
                     = Len(outcomes') - Count([i \in 1..Len(outcomes') |-> outcomes'[i].res], "Ready")]_vars
    /\ [][(IsFirstOk /\ PollStep /\ result.tag = "Err") =>
              /\ invoked' = invoked
              /\ requests' = requests
              /\ outcomes' = outcomes
              /\ result' = PollErr(<<>>)]_vars

\* A call over two endpoints returned Ready from the first, was polled again
\* and has the operation on the second endpoint in flight.
C30_Witness ==
    /\ IsFirstOk
    /\ N = 2
    /\ Len(outcomes) = 1
    /\ outcomes[1].res = "Ready"
    /\ Len(invoked) = 2
    /\ fut.current_future # None
    /\ result.tag = "NotReady"

\* A call that failed on both endpoints was polled again and returned an
\* empty error list.
C30_WitnessEmpty ==
    /\ IsFirstOk
    /\ N = 2
    /\ Len(outcomes) = 2
    /\ outcomes[2].res = "Err"
    /\ result = PollErr(<<>>)

====
